---------------------------- MODULE Spec2Model ----------------------------
(***************************************************************************)
(* A model of openrouter-cli: the transport client (the retry loop of      *)
(* OpenRouterClient.makeRequest and the stream reader of streamChat), the  *)
(* cached model list of ModelManager, the configuration of ConfigManager,  *)
(* and the chat front ends that fan a user turn out to several models (the *)
(* Ink App/ChatInterface components, ParallelChatInterface, the sequential *)
(* ChatInterface of chat.ts and the legacy ChatInterface of lib/chat.js).  *)
(***************************************************************************)
EXTENDS Integers, Sequences, FiniteSets, TLC

VARIABLES
  \* ---- OpenRouterClient.makeRequest (one call) ----
  reqPc,        \* "idle" | "fetching" | "delaying" | "returned" | "thrown"
  attempt,      \* the for loop's counter
  lastError,    \* the local lastError (Null until a catch assigns it)
  fetches,      \* the responses of the fetch calls made so far, in order
  delays,       \* the delayMs values handed to delay(), in order
  waited,       \* the time the timers of delay() have taken, in ms
  reqOutcome,   \* what the call returned or threw (Null while it runs)
  \* ---- a chat session ----
  frontend,     \* "ink" | "parallel" | "chat" | "legacy": which front end runs
  conversation, \* the message log (App's conversation state, this.conversation)
  activeModels, \* the models of a turn (App's models prop, this.activeModels)
  currentProfileName, \* this.currentProfileName (App's profileName prop)
  turn,         \* turns submitted so far (App's currentMessageId)
  tasks,        \* tasks[t][m]: the per-model task of turn t (its locals)
  completions,  \* completions[t]: the outcome lists the join of turn t delivered
  \* ---- Ink: App and the mounted ChatInterface ----
  isWaitingForResponse,
  streamingData,
  isProcessing,
  interrupted,  \* the <<turn, model>> streams that were open, with tokens
                \* received, when the user interrupted their turn
  \* ---- OpenRouterClient.streamChat (one call) ----
  streamPc,     \* "idle" | "reading" | "returned" | "done" | "thrown"
  streamArgs,   \* the model and the options of the call
  streamBody,   \* the request body sent
  streamInput,  \* the response body the backend sends for the call
  wire,         \* the part of the response body not yet read
  buffer,       \* the local buffer
  lines,        \* the lines of the last chunk the for loop has still to take
  yielded,      \* the tokens yielded so far
  streamError,  \* the error the generator threw (Null if none)
  \* ---- ModelManager ----
  cachedModels, \* this.models
  lastFetch,    \* this.lastFetch
  now,          \* Date.now()
  ticks,        \* how often the clock has advanced
  dirPc,        \* "idle" | "fetching" | "returned" | "thrown"
  dirRecord,    \* the call in progress or the last one
  \* ---- ConfigManager ----
  config,        \* this.config; its profiles field is a reference
  profileTables, \* the objects a profiles field can refer to
  configFile,    \* what CONFIG_FILE holds
  configOp       \* the last call and whether it threw

reqVars == <<reqPc, attempt, lastError, fetches, delays, waited, reqOutcome>>
chatVars == <<frontend, conversation, activeModels, currentProfileName, turn,
              tasks, completions>>
inkVars == <<isWaitingForResponse, streamingData, isProcessing, interrupted>>

streamVars == <<streamPc, streamArgs, streamBody, streamInput, wire, buffer, lines,
                yielded, streamError>>
dirVars == <<cachedModels, lastFetch, now, ticks, dirPc, dirRecord>>
cfgVars == <<config, profileTables, configFile, configOp>>
clientVars == <<reqVars, streamVars, dirVars, cfgVars>>

vars == <<reqVars, chatVars, inkVars, streamVars, dirVars, cfgVars>>

Null == [kind |-> "null", status |-> 0, at |-> -1]

(***************************************************************************)
(* Transport client: makeRequest                                           *)
(***************************************************************************)
MAX_RETRIES == 3
INITIAL_RETRY_DELAY == 1000

\* What Headers.get('Retry-After') can give: null when the header is absent,
\* else the header's text, here a sequence of characters.
NoHeader == <<"null">>
RetryAfterHeaders ==
  { NoHeader, <<>>, <<"0">>, <<"2">>, <<"1", "0">>, <<"W", "e", "d">> }

Digits == {"0", "1", "2", "3", "4", "5", "6", "7", "8", "9"}
DigitVal(c) ==
  CASE c = "0" -> 0 [] c = "1" -> 1 [] c = "2" -> 2 [] c = "3" -> 3
    [] c = "4" -> 4 [] c = "5" -> 5 [] c = "6" -> 6 [] c = "7" -> 7
    [] c = "8" -> 8 [] c = "9" -> 9

\* NaN, which no delay of the model equals: parseInt reads no sign here.
NaN == -1

\* parseInt(text): the number its leading decimal digits spell, NaN if it
\* has none.
RECURSIVE ParseDigits(_, _, _)
ParseDigits(s, i, acc) ==
  IF i > Len(s) \/ s[i] \notin Digits THEN acc
  ELSE ParseDigits(s, i + 1, acc * 10 + DigitVal(s[i]))
ParseInt(s) ==
  IF Len(s) = 0 \/ s[1] \notin Digits THEN NaN ELSE ParseDigits(s, 1, 0)

RECURSIVE Pow2(_)
Pow2(n) == IF n = 0 THEN 1 ELSE 2 * Pow2(n - 1)

\* x * 1000 for a JavaScript number x that may be NaN.
TimesThousand(x) == IF x = NaN THEN NaN ELSE x * 1000

\* retryAfter ? parseInt(retryAfter) * 1000
\*            : INITIAL_RETRY_DELAY * Math.pow(2, attempt)
\* (null and the empty string are falsy).
RateLimitDelayDoubled(retryAfter, a) ==
  IF retryAfter # NoHeader /\ retryAfter # <<>>
  THEN TimesThousand(ParseInt(retryAfter))
  ELSE INITIAL_RETRY_DELAY * 2 * (a + 1)
RateLimitDelay(retryAfter, a) ==
  IF retryAfter # NoHeader /\ retryAfter # <<>>
  THEN TimesThousand(ParseInt(retryAfter))
  ELSE INITIAL_RETRY_DELAY * Pow2(a)

\* The catch block's delay.
FailureDelay(a) == INITIAL_RETRY_DELAY * Pow2(a)

\* setTimeout(resolve, ms): Node runs a timer whose delay is NaN or below 1
\* after 1 ms.
TimerMsNoWait(ms) == 0
TimerMs(ms) == IF ms = NaN THEN 1 ELSE IF ms < 1 THEN 1 ELSE ms

\* The answers one fetch can get.
NetFailure == [kind |-> "neterr", status |-> 0, retryAfter |-> NoHeader, json |-> FALSE]
Http(status, retryAfter, json) ==
  [kind |-> "http", status |-> status, retryAfter |-> retryAfter, json |-> json]
FetchOutcomes ==
  {NetFailure}
    \cup {Http(429, h, FALSE) : h \in RetryAfterHeaders}
    \cup {Http(s, NoHeader, FALSE) : s \in {400, 500}}
    \cup {Http(200, NoHeader, j) : j \in BOOLEAN}

\* response.ok
ResponseOk(r) == r.kind = "http" /\ r.status >= 200 /\ r.status <= 299

\* The errors of one call; `at` is the attempt (0-based) that raised it.
TransportFailure(a) == [kind |-> "TransportFailure", status |-> 0, at |-> a]
ApiError(status, a) == [kind |-> "ApiError", status |-> status, at |-> a]
JsonFailure(a) == [kind |-> "JsonFailure", status |-> 200, at |-> a]
GenericFailure == [kind |-> "MaxRetries", status |-> 0, at |-> -1]
Result(a) == [kind |-> "result", status |-> 200, at |-> a]

\* for (...; attempt < MAX_RETRIES; ...)
LoopGoesOnOneMore(a) == a <= MAX_RETRIES
LoopGoesOn(a) == a < MAX_RETRIES

\* The loop's attempt++ and test, and the throw that follows the loop.
AfterIteration(err) ==
  /\ attempt' = attempt + 1
  /\ IF LoopGoesOn(attempt + 1)
     THEN /\ reqPc' = "fetching"
          /\ reqOutcome' = reqOutcome
     ELSE /\ reqPc' = "thrown"
          /\ reqOutcome' = IF err # Null THEN err ELSE GenericFailure

ReqIdle ==
  /\ reqPc = "idle"
  /\ attempt = 0
  /\ lastError = Null
  /\ fetches = <<>>
  /\ delays = <<>>
  /\ waited = 0
  /\ reqOutcome = Null

\* makeRequest is called: the loop starts with attempt 0.
ReqCall ==
  /\ reqPc \in {"idle", "returned", "thrown"}
  /\ reqPc' = "fetching"
  /\ attempt' = 0
  /\ lastError' = Null
  /\ fetches' = <<>>
  /\ delays' = <<>>
  /\ waited' = 0
  /\ reqOutcome' = Null
  /\ UNCHANGED <<chatVars, inkVars, streamVars, dirVars, cfgVars>>

\* The catch block: record the error; delay unless this was the last attempt.
ReqCatch(err) ==
  /\ lastError' = err
  /\ IF attempt < MAX_RETRIES - 1
     THEN /\ delays' = Append(delays, FailureDelay(attempt))
          /\ reqPc' = "delaying"
          /\ UNCHANGED <<attempt, reqOutcome>>
     ELSE /\ delays' = delays
          /\ AfterIteration(err)

\* One iteration of the loop body up to its next await: the fetch settles
\* with r and the response is handled.
ReqAttempt(r) ==
  /\ reqPc = "fetching"
  /\ fetches' = Append(fetches, r)
  /\ waited' = waited
  /\ IF r.kind = "neterr" THEN ReqCatch(TransportFailure(attempt))
     ELSE IF r.status = 429
     THEN /\ delays' = Append(delays, RateLimitDelay(r.retryAfter, attempt))
          /\ reqPc' = "delaying"
          /\ UNCHANGED <<attempt, lastError, reqOutcome>>
     ELSE IF ~ResponseOk(r) THEN ReqCatch(ApiError(r.status, attempt))
     ELSE IF ~r.json THEN ReqCatch(JsonFailure(attempt))
     ELSE /\ reqPc' = "returned"
          /\ reqOutcome' = Result(attempt)
          /\ UNCHANGED <<attempt, lastError, delays>>
  /\ UNCHANGED <<chatVars, inkVars, streamVars, dirVars, cfgVars>>

\* The timer of delay() fires: the iteration ends (continue, or the end of
\* the catch block).
ReqDelayDone ==
  /\ reqPc = "delaying"
  /\ waited' = waited + TimerMs(delays[Len(delays)])
  /\ AfterIteration(lastError)
  /\ UNCHANGED <<lastError, fetches, delays, chatVars, inkVars, streamVars, dirVars, cfgVars>>

ReqFetch == \E r \in FetchOutcomes : ReqAttempt(r)

ReqNext == ReqCall \/ ReqFetch \/ ReqDelayDone

(***************************************************************************)
(* Transport client: streamChat                                            *)
(***************************************************************************)
\* Temperatures are counted in tenths: 0.7 is 7, 2 is 20.
DEFAULT_TEMPERATURE == 7
DEFAULT_MAX_TOKENS == 4000
\* An option the caller left out (undefined).
Undefined == -1
\* x || dflt: undefined and 0 are falsy.
OrDefault(x, dflt) == IF x = Undefined \/ x = 0 THEN dflt ELSE x

\* The arguments of a streamChat call: the model and the ChatOptions.
ChatOptions(temperature, maxTokens) ==
  [temperature |-> temperature, maxTokens |-> maxTokens]
StreamArgs(model, options) == [model |-> model, options |-> options]
NoArgs == StreamArgs("none", ChatOptions(Undefined, Undefined))
\* JSON.stringify({ model, messages, temperature, max_tokens, stream }).
RequestBody(args, stream) ==
  [model |-> args.model,
   temperature |-> OrDefault(args.options.temperature, DEFAULT_TEMPERATURE),
   max_tokens |-> OrDefault(args.options.maxTokens, DEFAULT_MAX_TOKENS),
   stream |-> stream]
NoBody == RequestBody(NoArgs, FALSE)

\* The text of the response body is a sequence of symbols: a newline, a
\* blank, the pieces of the prefixes, and the pieces of a JSON fragment.
NL == "\n"
DataPrefix == <<"data:", " ">>
CommentPrefix == <<":", " ">>
Sentinel == <<"[DONE]">>
Tokens == {"x", "y"}
NoContent == ""

\* The lines a backend sends.  A fragment {choices:[{delta:{content: t}}]}
\* reads "{", t, "}"; a delta without content (a role-only fragment) reads
\* "{", "}"; a fragment cut short reads "{", "x".
TokenLine(t) == DataPrefix \o <<"{", t, "}">>
EmptyDeltaLine == DataPrefix \o <<"{", "}">>
MalformedLine == DataPrefix \o <<"{", "x">>
BlankLine == <<>>
CommentLine == CommentPrefix \o <<"x">>
SentinelLine == DataPrefix \o Sentinel
StreamLines ==
  {TokenLine(t) : t \in Tokens}
    \cup {EmptyDeltaLine, MalformedLine, BlankLine, CommentLine, SentinelLine}

\* How many complete lines a response body of the model has.
MaxLines == 3
\* A response body: complete lines, each ended by a newline, and the text
\* after the last newline (empty when the body ends with a newline).
StreamTails == {<<>>, TokenLine("y"), SentinelLine}
StreamInput(ls, tail) == [lines |-> ls, tail |-> tail]
StreamInputs ==
  {StreamInput(ls, tail) :
     ls \in UNION {[1..k -> StreamLines] : k \in 0..MaxLines}, tail \in StreamTails}
NoInput == StreamInput(<<>>, <<>>)
RECURSIVE Wire(_, _)
Wire(ls, tail) ==
  IF ls = <<>> THEN tail ELSE Head(ls) \o <<NL>> \o Wire(Tail(ls), tail)

\* text.split(sep), the piece in hand being cur.
RECURSIVE SplitOn(_, _, _)
SplitOn(s, sep, cur) ==
  IF s = <<>> THEN <<cur>>
  ELSE IF Head(s) = sep THEN <<cur>> \o SplitOn(Tail(s), sep, <<>>)
  ELSE SplitOn(Tail(s), sep, Append(cur, Head(s)))
\* buffer.split('\n')
SplitLines(text) == SplitOn(text, NL, <<>>)

\* line.trim() === ''
IsBlank(line) == \A i \in DOMAIN line : line[i] = " "
StartsWith(line, prefix) ==
  Len(line) >= Len(prefix) /\ SubSeq(line, 1, Len(prefix)) = prefix

\* JSON.parse(data) and chunk.choices[0].delta.content: ok is FALSE when
\* JSON.parse throws.
JsonParse(data) ==
  IF Len(data) = 3 /\ data[1] = "{" /\ data[2] \in Tokens /\ data[3] = "}"
  THEN [ok |-> TRUE, content |-> data[2]]
  ELSE IF data = <<"{", "}">> THEN [ok |-> TRUE, content |-> NoContent]
  ELSE [ok |-> FALSE, content |-> NoContent]

\* The body of the for loop over the lines, for one line.
DataOf(line) == SubSeq(line, Len(DataPrefix) + 1, Len(line))
LineEffectNoSentinel(line) ==
  IF IsBlank(line) THEN "skip"
  ELSE IF StartsWith(line, CommentPrefix) THEN "skip"
  ELSE IF ~StartsWith(line, DataPrefix) THEN "skip"
  ELSE IF JsonParse(DataOf(line)).ok /\ JsonParse(DataOf(line)).content # NoContent
  THEN "yield"
  ELSE "skip"
LineEffect(line) ==
  IF IsBlank(line) THEN "skip"
  ELSE IF StartsWith(line, CommentPrefix) THEN "skip"
  ELSE IF ~StartsWith(line, DataPrefix) THEN "skip"
  ELSE IF DataOf(line) = Sentinel THEN "return"
  ELSE IF JsonParse(DataOf(line)).ok /\ JsonParse(DataOf(line)).content # NoContent
  THEN "yield"
  ELSE "skip"

\* No streamChat call has started; args and input are those of the call
\* to come.
StreamReady(args, input) ==
  /\ streamPc = "idle"
  /\ streamArgs = args
  /\ streamBody = NoBody
  /\ streamInput = input
  /\ wire = <<>>
  /\ buffer = <<>>
  /\ lines = <<>>
  /\ yielded = <<>>
  /\ streamError = Null
StreamIdle == StreamReady(NoArgs, NoInput)

\* streamChat up to the reader: build the body, fetch, test response.ok.
StreamOpen(r) ==
  /\ streamPc = "idle"
  /\ streamBody' = RequestBody(streamArgs, TRUE)
  /\ IF r.kind = "neterr"
     THEN /\ streamPc' = "thrown"
          /\ streamError' = TransportFailure(0)
          /\ wire' = <<>>
     ELSE IF ~ResponseOk(r)
     THEN /\ streamPc' = "thrown"
          /\ streamError' = ApiError(r.status, 0)
          /\ wire' = <<>>
     ELSE /\ streamPc' = "reading"
          /\ streamError' = Null
          /\ wire' = Wire(streamInput.lines, streamInput.tail)
  /\ UNCHANGED <<streamArgs, streamInput, buffer, lines, yielded>>
  /\ UNCHANGED <<reqVars, dirVars, chatVars, inkVars, cfgVars>>

\* The sizes of the chunk reader.read() can give.
ChunkSizes == {n \in {1, 2, Len(wire)} : n >= 1 /\ n <= Len(wire)}

\* reader.read() resolves: with done, the loop breaks and the generator ends;
\* with a chunk, the buffer is split and its last piece kept.
StreamRead ==
  /\ streamPc = "reading"
  /\ lines = <<>>
  /\ IF wire = <<>>
     THEN /\ streamPc' = "done"
          /\ buffer' = <<>>
          /\ UNCHANGED <<wire, lines>>
     ELSE \E n \in ChunkSizes :
            LET pieces == SplitLines(buffer \o SubSeq(wire, 1, n))
            IN  /\ wire' = SubSeq(wire, n + 1, Len(wire))
                /\ lines' = SubSeq(pieces, 1, Len(pieces) - 1)
                /\ buffer' = pieces[Len(pieces)]
                /\ streamPc' = "reading"
  /\ UNCHANGED <<streamArgs, streamBody, streamInput, yielded, streamError>>
  /\ UNCHANGED <<reqVars, dirVars, chatVars, inkVars, cfgVars>>

\* reader.read() rejects: the connection broke.
StreamBreak ==
  /\ streamPc = "reading"
  /\ lines = <<>>
  /\ streamPc' = "thrown"
  /\ streamError' = TransportFailure(0)
  /\ buffer' = <<>>
  /\ wire' = <<>>
  /\ UNCHANGED <<streamArgs, streamBody, streamInput, lines, yielded>>
  /\ UNCHANGED <<reqVars, dirVars, chatVars, inkVars, cfgVars>>

\* The next line of the for loop.
StreamLine ==
  /\ streamPc = "reading"
  /\ lines # <<>>
  /\ LET effect == LineEffect(Head(lines))
     IN  IF effect = "return"
         THEN /\ streamPc' = "returned"
              /\ lines' = <<>>
              /\ buffer' = <<>>
              /\ wire' = <<>>
              /\ yielded' = yielded
         ELSE /\ lines' = Tail(lines)
              /\ yielded' =
                   IF effect = "yield"
                   THEN Append(yielded, JsonParse(DataOf(Head(lines))).content)
                   ELSE yielded
              /\ UNCHANGED <<streamPc, buffer, wire>>
  /\ UNCHANGED <<streamArgs, streamBody, streamInput, streamError>>
  /\ UNCHANGED <<reqVars, dirVars, chatVars, inkVars, cfgVars>>

StreamFetch == \E r \in FetchOutcomes : StreamOpen(r)

StreamNext == StreamFetch \/ StreamRead \/ StreamBreak \/ StreamLine

(***************************************************************************)
(* ModelManager: the cached model list                                     *)
(***************************************************************************)
cacheTimeout == 300000
\* lastFetch before the first fetch (null); Date.now() is never 0.
NeverFetched == 0
\* How often the clock of the model advances, and by how much.
MaxTicks == 3
TickSizes == {1, cacheTimeout - 1, cacheTimeout}

\* Model ids are texts: sequences of symbols.
ModelM0 == <<"a", "/", "m0">>
ModelM1 == <<"a", "/", "m1">>
ModelM2 == <<"b", "/", "m2">>
ModelM3 == <<"m3">>
\* The lists GET /models can answer with.
Catalogs == {<<>>, <<ModelM2, ModelM1, ModelM0>>, <<ModelM3, ModelM1>>}
Queries == {<<"a">>, <<"a", "/", "m1">>, <<"z">>}

\* text.includes(query)
Includes(text, query) ==
  \E i \in 0..(Len(text) - Len(query)) :
    SubSeq(text, i + 1, i + Len(query)) = query

\* models.filter(model => model.id.toLowerCase().includes(queryLower) || ...)
SearchAll(list, query) == list
Search(list, query) ==
  LET Hit(id) == Includes(id, query)
  IN  SelectSeq(list, Hit)

\* extractOrganization: parts = modelId.split('/');
\* parts.length > 1 && parts[0] ? parts[0] : 'other'
ExtractOrganization(id) ==
  LET parts == SplitOn(id, "/", <<>>)
  IN  IF Len(parts) > 1 /\ parts[1] # <<>> THEN parts[1] ELSE <<"other">>

\* a.id.localeCompare(b.id) over the ids of the model (none has a pricing,
\* so isFreeModel holds for all of them).
IdRank(id) ==
  CASE id = ModelM0 -> 0 [] id = ModelM1 -> 1 [] id = ModelM2 -> 2 [] id = ModelM3 -> 3
RECURSIVE SortModels(_)
SortModels(list) ==
  IF list = <<>> THEN <<>>
  ELSE LET least == CHOOSE i \in DOMAIN list :
                      \A j \in DOMAIN list : IdRank(list[i]) <= IdRank(list[j])
           rest == [k \in 1..(Len(list) - 1) |->
                      IF k < least THEN list[k] ELSE list[k + 1]]
       IN  <<list[least]>> \o SortModels(rest)

\* getModelsByOrganization: the models of every organization, sorted.
GroupByOrganization(list) ==
  LET orgs == {ExtractOrganization(list[i]) : i \in DOMAIN list}
  IN  [org \in orgs |->
         LET OfOrg(id) == ExtractOrganization(id) = org
         IN  SortModels(SelectSeq(list, OfOrg))]

\* The calls of the module's users: listModels/fetchModels(force),
\* searchModels(query), getModelsByOrganization().
DirCallOf(op, force, query) == [op |-> op, force |-> force, query |-> query]
DirCalls ==
  {DirCallOf("list", f, <<>>) : f \in BOOLEAN}
    \cup {DirCallOf("search", FALSE, q) : q \in Queries}
    \cup {DirCallOf("group", FALSE, <<>>)}
NoCall == DirCallOf("none", FALSE, <<>>)
\* What the call returns, given the list fetchModels gave it.
Derived(call, list) ==
  IF call.op = "search" THEN Search(list, call.query)
  ELSE IF call.op = "group" THEN GroupByOrganization(list)
  ELSE list

\* The cache at a moment.
CacheOf(list, fetchedAt) == [models |-> list, lastFetch |-> fetchedAt]
\* A call in progress or over: the call, the clock and the cache when it
\* was made, whether it fetched and how the fetch went, what it returned.
DirRecord(call, at, before, network, fetch, kind, value) ==
  [call |-> call, at |-> at, before |-> before, network |-> network,
   fetch |-> fetch, kind |-> kind, value |-> value]
NoFetch == [ok |-> FALSE, data |-> <<>>]
NoRecord ==
  DirRecord(NoCall, 0, CacheOf(<<>>, NeverFetched), FALSE, NoFetch, "none", <<>>)

\* What makeRequest('/models') does for getModels: it returns the body or
\* it throws.
ModelFetches == {[ok |-> TRUE, data |-> l] : l \in Catalogs} \cup {NoFetch}
\* getModels: response.data || [], and [] when makeRequest threw.
GetModels(fetch) ==
  [threw |-> FALSE, models |-> IF fetch.ok THEN fetch.data ELSE <<>>]

\* !force && this.lastFetch && Date.now() - this.lastFetch < this.cacheTimeout
IsFreshInclusive(force) ==
  ~force /\ lastFetch # NeverFetched /\ now - lastFetch <= cacheTimeout
IsFresh(force) ==
  ~force /\ lastFetch # NeverFetched /\ now - lastFetch < cacheTimeout

DirIdle ==
  /\ cachedModels = <<>>
  /\ lastFetch = NeverFetched
  /\ now = 1
  /\ ticks = 0
  /\ dirPc = "idle"
  /\ dirRecord = NoRecord

\* Time passes.
DirTick(d) ==
  /\ ticks < MaxTicks
  /\ ticks' = ticks + 1
  /\ now' = now + d
  /\ UNCHANGED <<cachedModels, lastFetch, dirPc, dirRecord>>
  /\ UNCHANGED <<reqVars, streamVars, chatVars, inkVars, cfgVars>>

\* A call up to fetchModels' await: a fresh cache is returned at once.
DirCall(call) ==
  /\ dirPc \in {"idle", "returned", "thrown"}
  /\ LET before == CacheOf(cachedModels, lastFetch)
     IN  IF IsFresh(call.force)
         THEN /\ dirPc' = "returned"
              /\ dirRecord' = DirRecord(call, now, before, FALSE, NoFetch, "value",
                                        Derived(call, cachedModels))
         ELSE /\ dirPc' = "fetching"
              /\ dirRecord' = DirRecord(call, now, before, TRUE, NoFetch, "none", <<>>)
  /\ UNCHANGED <<cachedModels, lastFetch, now, ticks>>
  /\ UNCHANGED <<reqVars, streamVars, chatVars, inkVars, cfgVars>>

\* await this.client.getModels() settles: the list becomes the cache and the
\* clock's time the time of the last fetch; a throw would be passed on.
DirFetched(fetch) ==
  /\ dirPc = "fetching"
  /\ LET got == GetModels(fetch)
     IN  IF got.threw
         THEN /\ dirPc' = "thrown"
              /\ dirRecord' = [dirRecord EXCEPT !.fetch = fetch, !.kind = "error"]
              /\ UNCHANGED <<cachedModels, lastFetch>>
         ELSE /\ dirPc' = "returned"
              /\ cachedModels' = got.models
              /\ lastFetch' = now
              /\ dirRecord' = [dirRecord EXCEPT !.fetch = fetch, !.kind = "value",
                                 !.value = Derived(dirRecord.call, got.models)]
  /\ UNCHANGED <<now, ticks>>
  /\ UNCHANGED <<reqVars, streamVars, chatVars, inkVars, cfgVars>>

DirTime == \E d \in TickSizes : DirTick(d)
DirUse == \E call \in DirCalls : DirCall(call)
DirAnswer == \E fetch \in ModelFetches : DirFetched(fetch)

DirNext == DirTime \/ DirUse \/ DirAnswer

(***************************************************************************)
(* ConfigManager: the configuration of one process                         *)
(***************************************************************************)
\* A profile; NoProfile is a name without an entry in a profiles object.
Profile(models, temperature, maxTokens) ==
  [models |-> models, temperature |-> temperature, maxTokens |-> maxTokens]
NoProfile == Profile(<<>>, Undefined, Undefined)
BuiltInProfile == Profile(<<"A">>, DEFAULT_TEMPERATURE, DEFAULT_MAX_TOKENS)
WorkProfile == Profile(<<"B">>, 3, 8000)
CfgNames == {"default", "work"}
\* DEFAULT_CONFIG.profiles as the module is loaded.
BuiltInProfiles == [n \in CfgNames |-> IF n = "default" THEN BuiltInProfile ELSE NoProfile]
NoKey == "null"
ApiKeys == {"k1"}

\* encrypt and decrypt of the API key; decrypt throws on a text that is no
\* cipher text of encrypt.
NoCipher == <<>>
Encrypt(key) == <<"aes", key>>
CorruptCipher == <<"xx">>
Decrypt(text) ==
  IF Len(text) = 2 /\ text[1] = "aes" THEN [threw |-> FALSE, key |-> text[2]]
  ELSE [threw |-> TRUE, key |-> NoKey]

\* What CONFIG_FILE can hold: nothing (ENOENT), a text that is no JSON, or
\* a configuration.
FileOf(kind, apiKey, defaultProfile, profiles) ==
  [kind |-> kind, apiKey |-> apiKey, defaultProfile |-> defaultProfile,
   profiles |-> profiles]
NoFile == FileOf("enoent", NoCipher, "default", BuiltInProfiles)
NotJson == FileOf("garbage", NoCipher, "default", BuiltInProfiles)
UserProfiles == [n \in CfgNames |-> IF n = "default" THEN BuiltInProfile ELSE WorkProfile]
ConfigFiles ==
  {NoFile, NotJson,
   FileOf("json", Encrypt("k1"), "work", UserProfiles),
   FileOf("json", CorruptCipher, "work", UserProfiles)}

\* this.config: null, or an object whose profiles field refers to
\* DEFAULT_CONFIG.profiles ("defaults") or to the object JSON.parse built
\* ("parsed").
ConfigOf(loaded, apiKey, defaultProfile, profiles) ==
  [loaded |-> loaded, apiKey |-> apiKey, defaultProfile |-> defaultProfile,
   profiles |-> profiles]
NoConfig == ConfigOf(FALSE, NoKey, "default", "defaults")
\* { ...DEFAULT_CONFIG }: a new object with the fields of DEFAULT_CONFIG;
\* its profiles field is DEFAULT_CONFIG.profiles itself.
CopyOfDefaults == ConfigOf(TRUE, NoKey, "default", "defaults")
TableRefs == {"defaults", "parsed"}

ConfigCall(op, threw) == [op |-> op, threw |-> threw]

\* save(): the configuration, its key encrypted, is written to the file.
Saved(cfg, tables) ==
  FileOf("json", IF cfg.apiKey = NoKey THEN NoCipher ELSE Encrypt(cfg.apiKey),
         cfg.defaultProfile, tables[cfg.profiles])

CfgReady(file) ==
  /\ config = NoConfig
  /\ profileTables = [r \in TableRefs |-> BuiltInProfiles]
  /\ configFile = file
  /\ configOp = ConfigCall("none", FALSE)
CfgIdle == CfgReady(NoFile)

\* init(): load().
CfgLoad ==
  /\ ~config.loaded
  /\ configOp' = ConfigCall("init", FALSE)
  /\ IF configFile.kind = "enoent"
     THEN /\ config' = CopyOfDefaults
          /\ configFile' = Saved(CopyOfDefaults, profileTables)
          /\ UNCHANGED profileTables
     ELSE IF configFile.kind = "garbage"
     THEN /\ config' = CopyOfDefaults
          /\ UNCHANGED <<configFile, profileTables>>
     ELSE IF configFile.apiKey # NoCipher /\ Decrypt(configFile.apiKey).threw
     THEN /\ config' = CopyOfDefaults
          /\ UNCHANGED <<configFile, profileTables>>
     ELSE /\ config' =
               ConfigOf(TRUE,
                        IF configFile.apiKey = NoCipher THEN NoKey
                        ELSE Decrypt(configFile.apiKey).key,
                        configFile.defaultProfile, "parsed")
          /\ profileTables' = [profileTables EXCEPT !["parsed"] = configFile.profiles]
          /\ UNCHANGED configFile
  /\ UNCHANGED <<reqVars, streamVars, dirVars, chatVars, inkVars>>

\* The end of every changing call: the new configuration is saved.
CfgChange(op, cfg, tables) ==
  /\ config' = cfg
  /\ profileTables' = tables
  /\ configFile' = Saved(cfg, tables)
  /\ configOp' = ConfigCall(op, FALSE)
\* A call that throws before it changes anything.
CfgThrow(op) ==
  /\ configOp' = ConfigCall(op, TRUE)
  /\ UNCHANGED <<config, profileTables, configFile>>

CfgSetApiKey(key) ==
  /\ config.loaded
  /\ CfgChange("setApiKey", [config EXCEPT !.apiKey = key], profileTables)
  /\ UNCHANGED <<reqVars, streamVars, dirVars, chatVars, inkVars>>

CfgRemoveApiKey ==
  /\ config.loaded
  /\ CfgChange("removeApiKey", [config EXCEPT !.apiKey = NoKey], profileTables)
  /\ UNCHANGED <<reqVars, streamVars, dirVars, chatVars, inkVars>>

\* this.config.profiles[name] = profile
CfgCreateProfile(name, profile) ==
  /\ config.loaded
  /\ CfgChange("createProfile", config,
               [profileTables EXCEPT ![config.profiles][name] = profile])
  /\ UNCHANGED <<reqVars, streamVars, dirVars, chatVars, inkVars>>

\* The updates of updateProfile: a Partial<Profile>.
UpdateFields == {"temperature", "models"}
Updated(profile, field) ==
  IF field = "temperature" THEN [profile EXCEPT !.temperature = 20]
  ELSE [profile EXCEPT !.models = <<"A", "B">>]
CfgUpdateProfile(name, field) ==
  /\ config.loaded
  /\ IF profileTables[config.profiles][name] = NoProfile
     THEN CfgThrow("updateProfile")
     ELSE CfgChange("updateProfile", config,
                    [profileTables EXCEPT ![config.profiles][name] = Updated(@, field)])
  /\ UNCHANGED <<reqVars, streamVars, dirVars, chatVars, inkVars>>

CfgDeleteProfile(name) ==
  /\ config.loaded
  /\ IF name = "default"
     THEN CfgThrow("deleteProfile")
     ELSE CfgChange("deleteProfile",
                    [config EXCEPT !.defaultProfile = IF @ = name THEN "default" ELSE @],
                    [profileTables EXCEPT ![config.profiles][name] = NoProfile])
  /\ UNCHANGED <<reqVars, streamVars, dirVars, chatVars, inkVars>>

CfgSetDefaultProfile(name) ==
  /\ config.loaded
  /\ IF profileTables[config.profiles][name] = NoProfile
     THEN CfgThrow("setDefaultProfile")
     ELSE CfgChange("setDefaultProfile", [config EXCEPT !.defaultProfile = name],
                    profileTables)
  /\ UNCHANGED <<reqVars, streamVars, dirVars, chatVars, inkVars>>

\* reset(): this.config = { ...DEFAULT_CONFIG }; save().
CfgReset ==
  /\ config.loaded
  /\ CfgChange("reset", CopyOfDefaults, profileTables)
  /\ UNCHANGED <<reqVars, streamVars, dirVars, chatVars, inkVars>>

CfgKey == \E key \in ApiKeys : CfgSetApiKey(key)
CfgCreate == \E name \in CfgNames, profile \in {WorkProfile} : CfgCreateProfile(name, profile)
CfgUpdate == \E name \in CfgNames, field \in UpdateFields : CfgUpdateProfile(name, field)
CfgDelete == \E name \in CfgNames : CfgDeleteProfile(name)
CfgDefault == \E name \in CfgNames : CfgSetDefaultProfile(name)

CfgNext ==
  \/ CfgLoad
  \/ CfgKey
  \/ CfgRemoveApiKey
  \/ CfgCreate
  \/ CfgUpdate
  \/ CfgDelete
  \/ CfgDefault
  \/ CfgReset

\* No client call runs.
ClientIdle == ReqIdle /\ StreamIdle /\ DirIdle /\ CfgIdle

(***************************************************************************)
(* Chat sessions: messages, views and per-model tasks                      *)
(***************************************************************************)
ModelIds == {"A", "B"}
NoModel == "none"
NoError == "none"
StreamError == "stream failed"

\* How many turns a session of the model submits.
MaxTurns == 2

\* The token stream the backend sends for a model, as streamChat yields it.
StreamOf(m) == IF m = "A" THEN <<"a1", "a2">> ELSE <<"b1">>

\* What the user types in turn t (trimmed and not empty).
UserText(t) == <<"user", t>>

\* A ChatMessage; `turn` is the turn that produced it (not a field of the
\* code's message), `error` is the error field the Ink front end adds.
Message(role, content, model, error, t) ==
  [role |-> role, content |-> content, model |-> model, error |-> error, turn |-> t]
UserMessage(t) == Message("user", UserText(t), NoModel, NoError, t)
AssistantMessageUnnamed(m, content, t) == Message("assistant", content, NoModel, NoError, t)
AssistantMessage(m, content, t) == Message("assistant", content, m, NoError, t)
ErrorOutcome(m, t) == Message("assistant", <<>>, m, StreamError, t)

ModelSet(models) == {models[i] : i \in DOMAIN models}

\* this.conversation.filter(msg => msg.role !== 'assistant' || msg.model === model)
ViewForUnfiltered(conv, m) == conv
ViewFor(conv, m) ==
  LET Keep(msg) == msg.role # "assistant" \/ msg.model = m
  IN  SelectSeq(conv, Keep)

\* ChatInterface.tsx: the user messages and this model's assistant messages
\* of the conversation prop, then the current user message.
InkViewFor(conv, m, message) ==
  LET Keep(msg) == msg.role = "user" \/ (msg.role = "assistant" /\ msg.model = m)
  IN  Append(SelectSeq(conv, Keep), message)

\* The locals of one model's task: its request (view; snapshot is the log
\* the view was built from) and the response accumulated so far.
\* (read: the chunks the stream has yielded.)
NoTask ==
  [status |-> "none", read |-> 0, fullResponse |-> <<>>, view |-> <<>>, snapshot |-> <<>>]
NewTaskNotOpened(view, snapshot) ==
  [status |-> "pending", read |-> 0, fullResponse |-> <<>>,
   view |-> view, snapshot |-> snapshot]
NewTask(view, snapshot) ==
  [status |-> "streaming", read |-> 0, fullResponse |-> <<>>,
   view |-> view, snapshot |-> snapshot]
Settled(task) == task.status \in {"done", "error"}
\* A task that ended: its locals are gone, its status is kept.
Ended(task) == [NoTask EXCEPT !.status = task.status]
\* A task whose stream threw: the catch block keeps none of the locals.
Failed(task) == [NoTask EXCEPT !.status = "error"]

\* Promise.all over the per-model promises: every one has settled.
JoinedAny(ts, models) == \E m \in ModelSet(models) : Settled(ts[m])
Joined(ts, models) == \A m \in ModelSet(models) : Settled(ts[m])

\* The values the per-model promises resolved with, in the order of models.
OutcomeOf(task, m, t) ==
  IF task.status = "done" THEN AssistantMessage(m, task.fullResponse, t)
  ELSE ErrorOutcome(m, t)
Outcomes(ts, models, t) ==
  LET IsSettled(m) == Settled(ts[m])
      settled == SelectSeq(models, IsSettled)
  IN  [i \in 1..Len(settled) |-> OutcomeOf(ts[settled[i]], settled[i], t)]

\* The stream of task (t, m) has a next chunk; fullResponse += chunk.
HasNextToken(t, m) ==
  /\ t \in 1..turn
  /\ tasks[t][m].status = "streaming"
  /\ tasks[t][m].read < Len(StreamOf(m))
OnlyNextToken(t, m) == <<StreamOf(m)[tasks[t][m].read + 1]>>
NextTokenInFront(t, m) ==
  <<StreamOf(m)[tasks[t][m].read + 1]>> \o tasks[t][m].fullResponse
WithNextToken(t, m) ==
  Append(tasks[t][m].fullResponse, StreamOf(m)[tasks[t][m].read + 1])
\* The task after its for await loop took the next chunk.
TokenTaken(t, m) ==
  [tasks EXCEPT ![t][m] =
     [@ EXCEPT !.read = @ + 1, !.fullResponse = WithNextToken(t, m)]]
StreamAtEnd(t, m) ==
  /\ t \in 1..turn
  /\ tasks[t][m].status = "streaming"
  /\ tasks[t][m].read = Len(StreamOf(m))

(***************************************************************************)
(* The Ink front end: App and ChatInterface (components)                   *)
(***************************************************************************)
\* An entry of StreamingData; NoData is a model without an entry.
NoData == [present |-> FALSE, content |-> <<>>, isStreaming |-> FALSE, error |-> NoError]
StreamingEntry(content, isStreaming, error) ==
  [present |-> TRUE, content |-> content, isStreaming |-> isStreaming, error |-> error]

\* No Ink component is mounted.
InkIdle ==
  /\ isWaitingForResponse = FALSE
  /\ streamingData = [m \in ModelIds |-> NoData]
  /\ isProcessing = FALSE
  /\ interrupted = {}

InkModelLists == {<<"A", "B">>, <<"A">>}

InkInit ==
  /\ ClientIdle
  /\ frontend = "ink"
  /\ conversation = <<>>
  /\ activeModels \in InkModelLists
  /\ currentProfileName = "default"
  /\ turn = 0
  /\ tasks = <<>>
  /\ completions = <<>>
  /\ isWaitingForResponse = FALSE
  /\ streamingData = [m \in ModelIds |-> NoData]
  /\ isProcessing = FALSE
  /\ interrupted = {}

\* The return key with a non-empty input buffer: App appends the user
\* message, sets isWaitingForResponse and bumps currentMessageId; the
\* ChatInterface keyed by the new id mounts and its effect runs sendMessage,
\* which initialises streamingData and builds and opens every model's request.
InkSubmit ==
  /\ frontend = "ink"
  /\ ~isWaitingForResponse
  /\ turn < MaxTurns
  /\ LET t == turn + 1
         conv == Append(conversation, UserMessage(t))
     IN  /\ conversation' = conv
         /\ turn' = t
         /\ isWaitingForResponse' = TRUE
         /\ isProcessing' = TRUE
         /\ streamingData' =
              [m \in ModelIds |->
                 IF m \in ModelSet(activeModels)
                 THEN StreamingEntry(<<>>, TRUE, NoError) ELSE NoData]
         /\ tasks' = Append(tasks,
              [m \in ModelIds |->
                 IF m \in ModelSet(activeModels)
                 THEN NewTask(InkViewFor(conv, m, UserMessage(t)), conv)
                 ELSE NoTask])
         /\ completions' = Append(completions, <<>>)
  /\ UNCHANGED <<frontend, activeModels, currentProfileName, interrupted, clientVars>>

\* setStreamingData of the ChatInterface of turn t: it changes what is shown
\* only while that component is the mounted one.
InkSetStreamingDataOnly(t, m, entry) ==
  streamingData' =
    IF t = turn
    THEN [x \in ModelIds |-> IF x = m THEN entry ELSE NoData]
    ELSE streamingData
InkSetStreamingData(t, m, entry) ==
  streamingData' =
    IF t = turn THEN [streamingData EXCEPT ![m] = entry] ELSE streamingData

\* After a task of turn t settled (ts: the tasks then): when Promise.all
\* resolves, setIsProcessing(false) and onComplete(responses), which is
\* App.handleComplete: append the responses, clear isWaitingForResponse.
InkJoin(t, ts) ==
  IF Joined(ts[t], activeModels) /\ completions[t] = <<>>
  THEN LET responses == Outcomes(ts[t], activeModels, t)
       IN  /\ isProcessing' = (IF t = turn THEN FALSE ELSE isProcessing)
           /\ completions' = [completions EXCEPT ![t] = Append(@, responses)]
           /\ conversation' = conversation \o responses
           /\ isWaitingForResponse' = FALSE
           /\ tasks' = [ts EXCEPT ![t] = [m \in ModelIds |-> Ended(ts[t][m])]]
  ELSE /\ tasks' = ts
       /\ UNCHANGED <<isProcessing, completions, conversation, isWaitingForResponse>>

\* A chunk of model m's stream of turn t arrives.
InkToken(t, m) ==
  /\ frontend = "ink"
  /\ HasNextToken(t, m)
  /\ tasks' = TokenTaken(t, m)
  /\ InkSetStreamingData(t, m, StreamingEntry(WithNextToken(t, m), TRUE, NoError))
  /\ UNCHANGED <<frontend, conversation, activeModels, currentProfileName, turn,
                 completions, isWaitingForResponse, isProcessing, interrupted, clientVars>>

\* Model m's stream of turn t ends cleanly.
InkStreamEnd(t, m) ==
  /\ frontend = "ink"
  /\ StreamAtEnd(t, m)
  /\ LET ts == [tasks EXCEPT ![t][m].status = "done"]
     IN  /\ InkSetStreamingData(t, m,
              StreamingEntry(tasks[t][m].fullResponse, FALSE, NoError))
         /\ InkJoin(t, ts)
  /\ UNCHANGED <<frontend, activeModels, currentProfileName, turn, interrupted, clientVars>>

\* Model m's stream of turn t fails (at the fetch or while it is read).
InkStreamFail(t, m) ==
  /\ frontend = "ink"
  /\ t \in 1..turn
  /\ tasks[t][m].status = "streaming"
  /\ LET ts == [tasks EXCEPT ![t][m] = Failed(@)]
     IN  /\ InkSetStreamingData(t, m, StreamingEntry(<<>>, FALSE, StreamError))
         /\ InkJoin(t, ts)
  /\ UNCHANGED <<frontend, activeModels, currentProfileName, turn, interrupted, clientVars>>

\* The escape key while waiting: "Interrupt streaming".  (Ctrl+C, and the
\* escape key while not waiting, call exit(): the session ends there, which
\* is a behaviour that takes no further step.)
InkInterrupt ==
  /\ frontend = "ink"
  /\ isWaitingForResponse
  /\ isWaitingForResponse' = FALSE
  /\ interrupted' = interrupted \cup
       {<<turn, m>> : m \in {x \in ModelIds :
                               /\ tasks[turn][x].status = "streaming"
                               /\ tasks[turn][x].fullResponse # <<>>}}
  /\ UNCHANGED <<frontend, conversation, activeModels, currentProfileName, turn, tasks,
                 completions, streamingData, isProcessing, clientVars>>

InkStream ==
  \E t \in 1..MaxTurns, m \in ModelIds :
    InkToken(t, m) \/ InkStreamEnd(t, m) \/ InkStreamFail(t, m)

InkNext == InkSubmit \/ InkStream \/ InkInterrupt

(***************************************************************************)
(* ParallelChatInterface (parallel-chat.ts)                                *)
(***************************************************************************)
ParModelLists == {<<"A", "B">>, <<"B">>}

ParInit ==
  /\ ClientIdle
  /\ InkIdle
  /\ frontend = "parallel"
  /\ conversation = <<>>
  /\ activeModels \in ParModelLists
  /\ currentProfileName = "default"
  /\ turn = 0
  /\ tasks = <<>>
  /\ completions = <<>>

\* No sendMessage is running: run() is at its prompt.
AtPrompt == IF turn = 0 THEN TRUE ELSE completions[turn] # <<>>

\* sendMessage up to its await: push the user message, then every model's
\* callback runs to its first await, building its view and opening its stream.
ParSubmit ==
  /\ frontend = "parallel"
  /\ AtPrompt
  /\ turn < MaxTurns
  /\ LET t == turn + 1
         conv == Append(conversation, UserMessage(t))
     IN  /\ conversation' = conv
         /\ turn' = t
         /\ tasks' = Append(tasks,
              [m \in ModelIds |->
                 IF m \in ModelSet(activeModels)
                 THEN NewTask(ViewFor(conv, m), conv) ELSE NoTask])
         /\ completions' = Append(completions, <<>>)
  /\ UNCHANGED <<frontend, activeModels, currentProfileName, inkVars, clientVars>>

\* After a task of the turn settled: when Promise.all resolves, the summary
\* is printed and sendMessage returns.
ParJoin(ts) ==
  IF Joined(ts[turn], activeModels)
  THEN /\ completions' =
            [completions EXCEPT ![turn] = Append(@, Outcomes(ts[turn], activeModels, turn))]
       /\ tasks' = [ts EXCEPT ![turn] = [m \in ModelIds |-> Ended(ts[turn][m])]]
  ELSE /\ tasks' = ts
       /\ UNCHANGED completions

\* for await (const chunk of stream): fullResponse += chunk.
ParToken(m) ==
  /\ frontend = "parallel"
  /\ HasNextToken(turn, m)
  /\ tasks' = TokenTaken(turn, m)
  /\ UNCHANGED <<frontend, conversation, activeModels, currentProfileName, turn,
                 completions, inkVars, clientVars>>

\* The stream ends: the assistant message is pushed at once.
ParStreamEnd(m) ==
  /\ frontend = "parallel"
  /\ StreamAtEnd(turn, m)
  /\ conversation' =
       Append(conversation, AssistantMessage(m, tasks[turn][m].fullResponse, turn))
  /\ ParJoin([tasks EXCEPT ![turn][m].status = "done"])
  /\ UNCHANGED <<frontend, activeModels, currentProfileName, turn, inkVars, clientVars>>

\* The stream fails: nothing is pushed.
ParStreamFail(m) ==
  /\ frontend = "parallel"
  /\ turn >= 1
  /\ tasks[turn][m].status = "streaming"
  /\ ParJoin([tasks EXCEPT ![turn][m] = Failed(@)])
  /\ UNCHANGED <<frontend, conversation, activeModels, currentProfileName, turn,
                 inkVars, clientVars>>

ParStream == \E m \in ModelIds : ParToken(m) \/ ParStreamEnd(m) \/ ParStreamFail(m)

ParNext == ParSubmit \/ ParStream

(***************************************************************************)
(* ParallelChatInterface over streamChat: one model's task of a turn, its  *)
(* for await loop pulling the chunks of a streamChat call                  *)
(***************************************************************************)
\* The task awaits the generator: it has taken every chunk yielded so far.
ParAwaitsStream ==
  /\ frontend = "parallel"
  /\ turn = 1
  /\ tasks[turn][streamArgs.model].status = "streaming"
  /\ tasks[turn][streamArgs.model].read = Len(yielded)

ParStreamSubmit == turn = 0 /\ ParSubmit
\* stream.next() runs the generator up to its next yield, return or throw.
ParStreamOpen == ParAwaitsStream /\ StreamFetch
ParStreamRead == ParAwaitsStream /\ StreamRead
ParStreamBreak == ParAwaitsStream /\ StreamBreak
ParStreamLine == ParAwaitsStream /\ StreamLine

\* The generator yielded: fullResponse += chunk.
ParStreamChunk ==
  /\ frontend = "parallel"
  /\ turn = 1
  /\ LET m == streamArgs.model
     IN  /\ tasks[turn][m].status = "streaming"
         /\ tasks[turn][m].read < Len(yielded)
         /\ tasks' = [tasks EXCEPT ![turn][m] =
                        [@ EXCEPT !.read = @ + 1,
                                  !.fullResponse =
                                     Append(@, yielded[tasks[turn][m].read + 1])]]
  /\ UNCHANGED <<frontend, conversation, activeModels, currentProfileName, turn,
                 completions, inkVars, clientVars>>

\* The generator is done: the for await loop ends and the assistant
\* message is pushed.
ParStreamReturn ==
  /\ frontend = "parallel"
  /\ turn = 1
  /\ streamPc \in {"returned", "done"}
  /\ LET m == streamArgs.model
     IN  /\ tasks[turn][m].status = "streaming"
         /\ tasks[turn][m].read = Len(yielded)
         /\ conversation' =
              Append(conversation, AssistantMessage(m, tasks[turn][m].fullResponse, turn))
         /\ ParJoin([tasks EXCEPT ![turn][m].status = "done"])
  /\ UNCHANGED <<frontend, activeModels, currentProfileName, turn, inkVars, clientVars>>

\* The generator threw: the catch block resolves with the error.
ParStreamThrow ==
  /\ frontend = "parallel"
  /\ turn = 1
  /\ streamPc = "thrown"
  /\ tasks[turn][streamArgs.model].status = "streaming"
  /\ ParJoin([tasks EXCEPT ![turn][streamArgs.model] = Failed(@)])
  /\ UNCHANGED <<frontend, conversation, activeModels, currentProfileName, turn,
                 inkVars, clientVars>>

ParStreamNext ==
  \/ ParStreamSubmit
  \/ ParStreamOpen
  \/ ParStreamRead
  \/ ParStreamBreak
  \/ ParStreamLine
  \/ ParStreamChunk
  \/ ParStreamReturn
  \/ ParStreamThrow

(***************************************************************************)
(* ChatInterface (chat.ts): the models of a turn stream one after another  *)
(***************************************************************************)
\* The profiles of the configuration: name -> models.  (A profile can
\* have no model: the manual entry of createProfile accepts ",".)
ProfileNames == {"default", "solo", "empty"}
ProfileModels(name) ==
  IF name = "default" THEN <<"A", "B">> ELSE IF name = "solo" THEN <<"B">> ELSE <<>>
\* config.profiles is a plain object: for these names the lookup answers
\* with a member of Object.prototype.
InheritedNames == {"constructor"}
\* What the user can name in /profile.
ProfileArgs == ProfileNames \cup InheritedNames \cup {"missing"}
\* this.activeModels after it was assigned the `models` of a value that
\* has none.
UndefinedModels == <<"undefined">>

\* configManager.getProfile(name): this.config.profiles[name]
ConfigGetProfile(name) ==
  IF name \in ProfileNames THEN [kind |-> "profile", models |-> ProfileModels(name)]
  ELSE IF name \in InheritedNames THEN [kind |-> "inherited", models |-> UndefinedModels]
  ELSE [kind |-> "undefined", models |-> UndefinedModels]
\* profileManager.getProfile(name): throws if (!profile).
GetProfile(name) ==
  [threw |-> ConfigGetProfile(name).kind = "undefined",
   models |-> ConfigGetProfile(name).models]

\* What `for (const model of this.activeModels)` and this.activeModels.map
\* go over: on undefined they throw a TypeError, which the catch of run()
\* prints.
Targets(models) == IF models = UndefinedModels THEN <<>> ELSE models

PendingTask == [NoTask EXCEPT !.status = "pending"]

ChatInit ==
  /\ ClientIdle
  /\ InkIdle
  /\ frontend = "chat"
  /\ conversation = <<>>
  /\ currentProfileName \in ProfileNames
  /\ activeModels \in {ProfileModels(currentProfileName), <<"A">>} \ {<<>>}
  /\ turn = 0
  /\ tasks = <<>>
  /\ completions = <<>>

\* streamModelResponse(model) up to its await: the view is built from the
\* log as it is when the model's turn to stream comes.
StartedTask(conv, m) == NewTask(ViewFor(conv, m), conv)

\* The first model of the list that has not streamed yet, 0 if none.
NextPending(ts, models) ==
  LET idx == {i \in 1..Len(models) : ts[models[i]].status = "pending"}
  IN  IF idx = {} THEN 0 ELSE CHOOSE i \in idx : \A j \in idx : i <= j

\* The for loop of sendMessage goes on: the next model starts, or the loop
\* is over and sendMessage returns.
ChatAdvance(ts, conv) ==
  LET n == NextPending(ts[turn], activeModels)
  IN  IF n # 0
      THEN /\ tasks' = [ts EXCEPT ![turn][activeModels[n]] =
                          StartedTask(conv, activeModels[n])]
           /\ UNCHANGED completions
      ELSE /\ tasks' = [ts EXCEPT ![turn] = [m \in ModelIds |-> Ended(ts[turn][m])]]
           /\ completions' =
                [completions EXCEPT ![turn] =
                   Append(@, Outcomes(ts[turn], activeModels, turn))]

\* sendMessage: push the user message and start the first model.
ChatSubmit ==
  /\ frontend = "chat"
  /\ AtPrompt
  /\ turn < MaxTurns
  /\ LET t == turn + 1
         conv == Append(conversation, UserMessage(t))
         ts == Append(tasks,
                 [m \in ModelIds |->
                    IF m \in ModelSet(activeModels) THEN PendingTask ELSE NoTask])
         n == NextPending(ts[t], Targets(activeModels))
     IN  /\ conversation' = conv
         /\ turn' = t
         /\ IF n # 0
            THEN /\ tasks' = [ts EXCEPT ![t][activeModels[n]] =
                                StartedTask(conv, activeModels[n])]
                 /\ completions' = Append(completions, <<>>)
            ELSE /\ tasks' = ts
                 /\ completions' = Append(completions, << <<>> >>)
  /\ UNCHANGED <<frontend, activeModels, currentProfileName, inkVars, clientVars>>

ChatToken(m) ==
  /\ frontend = "chat"
  /\ HasNextToken(turn, m)
  /\ tasks' = TokenTaken(turn, m)
  /\ UNCHANGED <<frontend, conversation, activeModels, currentProfileName, turn,
                 completions, inkVars, clientVars>>

ChatStreamEnd(m) ==
  /\ frontend = "chat"
  /\ StreamAtEnd(turn, m)
  /\ LET conv == Append(conversation,
                   AssistantMessage(m, tasks[turn][m].fullResponse, turn))
     IN  /\ conversation' = conv
         /\ ChatAdvance([tasks EXCEPT ![turn][m].status = "done"], conv)
  /\ UNCHANGED <<frontend, activeModels, currentProfileName, turn, inkVars, clientVars>>

ChatStreamFail(m) ==
  /\ frontend = "chat"
  /\ turn >= 1
  /\ tasks[turn][m].status = "streaming"
  /\ ChatAdvance([tasks EXCEPT ![turn][m] = Failed(@)], conversation)
  /\ UNCHANGED <<frontend, conversation, activeModels, currentProfileName, turn,
                 inkVars, clientVars>>

\* /switch <id>
SwitchModel(modelId) ==
  /\ frontend \in {"chat", "legacy"}
  /\ AtPrompt
  /\ activeModels' = <<modelId>>
  /\ UNCHANGED <<frontend, conversation, currentProfileName, turn, tasks,
                 completions, inkVars, clientVars>>

SwitchProfileNewLog(name) ==
  /\ frontend \in {"chat", "legacy"}
  /\ AtPrompt
  /\ conversation' = <<>>
  /\ activeModels' = (IF GetProfile(name).threw THEN activeModels ELSE GetProfile(name).models)
  /\ UNCHANGED <<frontend, currentProfileName, turn, tasks, completions, inkVars, clientVars>>
\* /profile <name>: when getProfile throws, the catch only prints the
\* error; else the profile, its name (chat.ts) and its models are taken,
\* and what they are printed with is caught by the same catch.
SwitchProfile(name) ==
  /\ frontend \in {"chat", "legacy"}
  /\ AtPrompt
  /\ IF GetProfile(name).threw
     THEN UNCHANGED <<currentProfileName, activeModels>>
     ELSE /\ currentProfileName' = (IF frontend = "chat" THEN name ELSE currentProfileName)
          /\ activeModels' = GetProfile(name).models
  /\ UNCHANGED <<frontend, conversation, turn, tasks, completions, inkVars, clientVars>>

\* /clear
ClearConversation ==
  /\ frontend \in {"chat", "legacy"}
  /\ AtPrompt
  /\ conversation' = <<>>
  /\ UNCHANGED <<frontend, activeModels, currentProfileName, turn, tasks,
                 completions, inkVars, clientVars>>

\* /models, /help, /save <file> and an unknown command print or write a
\* file; nothing of the session changes.
PrintCommands == {"/models", "/help", "/save", "/unknown"}
PrintCommand(cmd) ==
  /\ frontend \in {"chat", "legacy"}
  /\ AtPrompt
  /\ UNCHANGED <<frontend, conversation, activeModels, currentProfileName, turn, tasks,
                 completions, inkVars, clientVars>>

ChatCommand ==
  \/ \E m \in ModelIds : SwitchModel(m)
  \/ \E name \in ProfileArgs : SwitchProfile(name)
  \/ ClearConversation
  \/ \E cmd \in PrintCommands : PrintCommand(cmd)

ChatStream == \E m \in ModelIds : ChatToken(m) \/ ChatStreamEnd(m) \/ ChatStreamFail(m)

ChatNext == ChatSubmit \/ ChatStream \/ ChatCommand

(***************************************************************************)
(* The legacy ChatInterface (lib/chat.js): whole responses, joined         *)
(***************************************************************************)
LegacyInit ==
  /\ ClientIdle
  /\ InkIdle
  /\ frontend = "legacy"
  /\ conversation = <<>>
  /\ currentProfileName = "default"
  /\ activeModels \in {ProfileModels(name) : name \in ProfileNames} \cup {<<"A">>}
  /\ turn = 0
  /\ tasks = <<>>
  /\ completions = <<>>

\* sendMessage up to its await: push the user message and call
\* getModelResponse for every model, each filtering the log at its call.
\* Without a model there is nothing to await.
LegacySubmit ==
  /\ frontend = "legacy"
  /\ AtPrompt
  /\ turn < MaxTurns
  /\ LET t == turn + 1
         conv == Append(conversation, UserMessage(t))
     IN  /\ conversation' = conv
         /\ turn' = t
         /\ tasks' = Append(tasks,
              [m \in ModelIds |->
                 IF m \in ModelSet(activeModels)
                 THEN NewTask(ViewFor(conv, m), conv) ELSE NoTask])
         /\ completions' =
              Append(completions,
                     IF Targets(activeModels) = <<>> THEN << <<>> >> ELSE <<>>)
  /\ UNCHANGED <<frontend, activeModels, currentProfileName, inkVars, clientVars>>

\* The loop over the responses: an error is printed, a content is printed
\* and pushed as the model's assistant message.
RECURSIVE PushResponses(_, _)
PushResponses(conv, responses) ==
  IF responses = <<>> THEN conv
  ELSE PushResponses(
         IF Head(responses).error # NoError THEN conv
         ELSE Append(conv, Head(responses)),
         Tail(responses))

LegacyJoin(ts) ==
  IF Joined(ts[turn], activeModels)
  THEN LET responses == Outcomes(ts[turn], activeModels, turn)
       IN  /\ completions' = [completions EXCEPT ![turn] = Append(@, responses)]
           /\ conversation' = PushResponses(conversation, responses)
           /\ tasks' = [ts EXCEPT ![turn] = [m \in ModelIds |-> Ended(ts[turn][m])]]
  ELSE /\ tasks' = ts
       /\ UNCHANGED <<completions, conversation>>

\* client.chat(...) resolves with the whole content.
LegacyRespond(m) ==
  /\ frontend = "legacy"
  /\ turn >= 1
  /\ tasks[turn][m].status = "streaming"
  /\ LegacyJoin([tasks EXCEPT ![turn][m] =
                   [@ EXCEPT !.status = "done", !.read = Len(StreamOf(m)),
                              !.fullResponse = StreamOf(m)]])
  /\ UNCHANGED <<frontend, activeModels, currentProfileName, turn, inkVars, clientVars>>

\* client.chat(...) rejects.
LegacyFail(m) ==
  /\ frontend = "legacy"
  /\ turn >= 1
  /\ tasks[turn][m].status = "streaming"
  /\ LegacyJoin([tasks EXCEPT ![turn][m] = Failed(@)])
  /\ UNCHANGED <<frontend, activeModels, currentProfileName, turn, inkVars, clientVars>>

LegacyAnswer == \E m \in ModelIds : LegacyRespond(m) \/ LegacyFail(m)

LegacyNext == LegacySubmit \/ LegacyAnswer \/ ChatCommand

(***************************************************************************)
(* Specifications                                                          *)
(***************************************************************************)
\* No chat session runs (the transport client is looked at alone).
NoSession ==
  /\ frontend = "none"
  /\ conversation = <<>>
  /\ activeModels = <<>>
  /\ currentProfileName = "default"
  /\ turn = 0
  /\ tasks = <<>>
  /\ completions = <<>>
  /\ isWaitingForResponse = FALSE
  /\ streamingData = [m \in ModelIds |-> NoData]
  /\ isProcessing = FALSE
  /\ interrupted = {}

RequestInit == ClientIdle /\ NoSession
SpecRequest == RequestInit /\ [][ReqNext]_vars

SpecInk == InkInit /\ [][InkNext]_vars

SpecParallel == ParInit /\ [][ParNext]_vars
SpecChat == ChatInit /\ [][ChatNext]_vars
SpecLegacy == LegacyInit /\ [][LegacyNext]_vars

\* One streamChat call with the options of the built-in default profile,
\* for every response body.
DefaultArgs == StreamArgs("A", ChatOptions(DEFAULT_TEMPERATURE, DEFAULT_MAX_TOKENS))
StreamInit ==
  /\ ReqIdle
  /\ DirIdle
  /\ CfgIdle
  /\ NoSession
  /\ \E input \in StreamInputs : StreamReady(DefaultArgs, input)
SpecStream == StreamInit /\ [][StreamNext]_vars

\* One streamChat call for every model and every profile.
Temperatures == {0, 3, 7, 20}
MaxTokenValues == {1, 4000, 8000}
ProfileOptions ==
  {ChatOptions(temperature, maxTokens) :
     temperature \in Temperatures, maxTokens \in MaxTokenValues}
StreamRequestInit ==
  /\ ReqIdle
  /\ DirIdle
  /\ CfgIdle
  /\ NoSession
  /\ \E m \in ModelIds, options \in ProfileOptions :
        StreamReady(StreamArgs(m, options),
                    StreamInput(<<TokenLine("x"), SentinelLine>>, <<>>))
SpecStreamRequest == StreamRequestInit /\ [][StreamNext]_vars

\* A turn of ParallelChatInterface for one model, over every response body.
ParStreamInit ==
  /\ ReqIdle
  /\ DirIdle
  /\ CfgIdle
  /\ InkIdle
  /\ frontend = "parallel"
  /\ conversation = <<>>
  /\ activeModels = <<"A">>
  /\ currentProfileName = "default"
  /\ turn = 0
  /\ tasks = <<>>
  /\ completions = <<>>
  /\ \E input \in StreamInputs : StreamReady(DefaultArgs, input)
SpecParallelStream == ParStreamInit /\ [][ParStreamNext]_vars

\* The ModelManager of one process.
DirectoryInit == ClientIdle /\ NoSession
SpecDirectory == DirectoryInit /\ [][DirNext]_vars

\* The ConfigManager of one process, for every content of the file.
ConfigInit ==
  /\ ReqIdle
  /\ StreamIdle
  /\ DirIdle
  /\ NoSession
  /\ \E file \in ConfigFiles : CfgReady(file)
SpecConfig == ConfigInit /\ [][CfgNext]_vars

\* A session of any of the four chat front ends.
Init == InkInit \/ ParInit \/ ChatInit \/ LegacyInit
Next == InkNext \/ ParNext \/ ChatNext \/ LegacyNext
Spec == Init /\ [][Next]_vars

(***************************************************************************)
(* Claims about makeRequest                                                *)
(***************************************************************************)
ReqRunning == reqPc \in {"fetching", "delaying"}
ReqEnded == reqPc \in {"returned", "thrown"}
ReqMeasure == 2 * Len(fetches) + (IF reqPc = "fetching" THEN 1 ELSE 0)
IsRateLimited(r) == r.kind = "http" /\ r.status = 429
IsApiFailure(r) == r.kind = "http" /\ r.status # 429 /\ ~(r.status \in 200..299)

\* The sum of the computed delays, NaN counting as no delay.
RECURSIVE SumDelays(_)
SumDelays(ds) ==
  IF ds = <<>> THEN 0
  ELSE (IF Head(ds) = NaN THEN 0 ELSE Head(ds)) + SumDelays(Tail(ds))

\* C7: whatever the fetches answer, one call of makeRequest makes at most 3
\* fetches and ends: every step of a running call brings it nearer to its
\* end (a fetch or a timer more), and no fetch follows the third.
C7_AtMostThreeAttempts ==
  /\ [](Len(fetches) <= 3 /\ (ReqRunning => ReqMeasure <= 6))
  /\ [][ReqRunning => (ReqEnded' \/ (ReqRunning' /\ ReqMeasure' > ReqMeasure))]_vars

C7_Witness ==
  /\ reqPc = "thrown"
  /\ Len(fetches) = 3
  /\ fetches[1].kind = "neterr"
  /\ IsRateLimited(fetches[2])
  /\ IsApiFailure(fetches[3])

\* C8 as stated: a transport that answers 429 three times (and would then
\* answer with success) gives the call a successful result within 3 attempts.
C8_ThreeRateLimitsThenSuccess ==
  (ReqEnded /\ Len(fetches) >= 3 /\ \A i \in 1..3 : IsRateLimited(fetches[i]))
    => (reqPc = "returned" /\ Len(fetches) <= 3)

\* C8 amended: after three 429 answers the call has made exactly 3 attempts,
\* has waited the sum of the three computed delays (each timer may add 1 ms)
\* and fails with the generic error, no success being asked for; a success
\* that comes as the third answer after two 429 is returned, after the sum
\* of the two delays.
C8_ThreeRateLimitsFail ==
  /\ (ReqEnded /\ Len(fetches) >= 3 /\ \A i \in 1..3 : IsRateLimited(fetches[i]))
       => /\ reqPc = "thrown"
          /\ reqOutcome = GenericFailure
          /\ Len(fetches) = 3
          /\ Len(delays) = 3
          /\ waited >= SumDelays(delays)
          /\ waited <= SumDelays(delays) + 3
          /\ (\A i \in 1..3 : fetches[i].retryAfter = NoHeader) => waited = 7000
  /\ (ReqEnded /\ Len(fetches) = 3 /\ IsRateLimited(fetches[1])
        /\ IsRateLimited(fetches[2]) /\ ResponseOk(fetches[3]) /\ fetches[3].json)
       => /\ reqPc = "returned"
          /\ reqOutcome.kind = "result"
          /\ Len(delays) = 2
          /\ waited >= SumDelays(delays)
          /\ waited <= SumDelays(delays) + 2

C8_Witness ==
  /\ reqPc = "thrown"
  /\ Len(fetches) = 3
  /\ \A i \in 1..3 : IsRateLimited(fetches[i]) /\ fetches[i].retryAfter = NoHeader
  /\ waited = 7000

\* C9: a non-2xx answer other than 429 ends the call at once with an ApiError
\* of that status: it is the last fetch of the call and no delay follows it.
C9_ApiErrorFailsImmediately ==
  \A i \in 1..Len(fetches) :
    IsApiFailure(fetches[i])
      => /\ i = Len(fetches)
         /\ reqPc = "thrown"
         /\ reqOutcome = ApiError(fetches[i].status, i - 1)
         /\ Len(delays) = i - 1

\* C10: the delay after a 429 on attempt a (0-based) is the Retry-After
\* header's seconds times 1000 when the header gives seconds, and 1000 * 2^a
\* without a header: 1000, 2000, 4000 ms.
C10_RateLimitDelays ==
  \A i \in 1..Len(fetches) :
    IsRateLimited(fetches[i])
      => /\ i <= Len(delays)
         /\ fetches[i].retryAfter = NoHeader
              => delays[i] = (CASE i = 1 -> 1000 [] i = 2 -> 2000 [] i = 3 -> 4000)
         /\ (i > 1 /\ IsRateLimited(fetches[i - 1])
               /\ fetches[i].retryAfter = NoHeader
               /\ fetches[i - 1].retryAfter = NoHeader)
              => delays[i] = 2 * delays[i - 1]
         /\ fetches[i].retryAfter = <<"0">> => delays[i] = 0
         /\ fetches[i].retryAfter = <<"2">> => delays[i] = 2000
         /\ fetches[i].retryAfter = <<"1", "0">> => delays[i] = 10000

C10_Witness ==
  /\ Len(fetches) = 3
  /\ fetches[1] = Http(429, NoHeader, FALSE)
  /\ fetches[2] = Http(429, <<"2">>, FALSE)
  /\ fetches[3] = Http(429, NoHeader, FALSE)
  /\ delays = <<1000, 2000, 4000>>
  /\ reqPc = "thrown"

(***************************************************************************)
(* Claims about the chat front ends                                        *)
(***************************************************************************)
\* The models turn t was fanned out to.
TurnModels(t) == {m \in ModelIds : tasks[t][m].status # "none"}
TurnComplete(t) == completions[t] # <<>>
OpenRequests ==
  {p \in (1..turn) \X ModelIds : tasks[p[1]][p[2]].status = "streaming"}
IsAssistant(msg) == msg.role = "assistant"
\* The messages of the log a request for model m has to carry.
Visible(msg, m) ==
  msg.role \in {"user", "system"} \/ (IsAssistant(msg) /\ msg.model = m)
VisibleAt(log, m) == {i \in DOMAIN log : Visible(log[i], m)}
\* v is the log restricted to what m may see, in the order of the log.
IsRestriction(v, log, m) ==
  /\ Len(v) = Cardinality(VisibleAt(log, m))
  /\ \A i \in VisibleAt(log, m) :
       v[Cardinality({j \in VisibleAt(log, m) : j <= i})] = log[i]
\* The history part of a request: the Ink front end sends the turn's user
\* message once more after it.
HistoryOf(view) ==
  IF frontend = "ink" THEN SubSeq(view, 1, Len(view) - 1) ELSE view

\* C1: every request built for a model M carries every user and system
\* message of the conversation it was built from and, of the assistant
\* messages, exactly those of M, all in the order of the log; no message of
\* another model is in it.
C1_PerModelViewIsolation ==
  \A p \in OpenRequests :
    LET task == tasks[p[1]][p[2]]
    IN  /\ IsRestriction(HistoryOf(task.view), task.snapshot, p[2])
        /\ \A i \in DOMAIN task.view :
             IsAssistant(task.view[i]) => task.view[i].model = p[2]

\* A request built from a log that holds answers of its own model and of
\* another one.
C1_Witness ==
  \E p \in OpenRequests :
    LET log == tasks[p[1]][p[2]].snapshot
    IN  /\ \E i \in DOMAIN log : IsAssistant(log[i]) /\ log[i].model = p[2]
        /\ \E i \in DOMAIN log : IsAssistant(log[i]) /\ log[i].model # p[2]

\* The assistant messages of turn t for model m in the conversation.
AssistantEntries(t, m) ==
  {i \in DOMAIN conversation :
     /\ IsAssistant(conversation[i])
     /\ conversation[i].turn = t
     /\ conversation[i].model = m}
OutcomesFor(t, m) ==
  {i \in DOMAIN completions[t][1] : completions[t][1][i].model = m}
FailedIn(t) == {m \in ModelIds : tasks[t][m].status = "error"}
DoneIn(t) == {m \in ModelIds : tasks[t][m].status = "done"}

\* C2: when some streams of a turn fail and the others complete, the
\* outcomes of the turn hold an error entry for each failed model and the
\* full content for each completed one, and the conversation gains exactly
\* one assistant message per completed model and none for a failed model.
C2_PartialFailureIndependence ==
  \A t \in 1..turn :
    (TurnComplete(t) /\ FailedIn(t) # {} /\ DoneIn(t) # {}) =>
       /\ \A m \in FailedIn(t) :
            /\ \E i \in OutcomesFor(t, m) : completions[t][1][i].error # NoError
            /\ AssistantEntries(t, m) = {}
       /\ \A m \in DoneIn(t) :
            /\ \E i \in OutcomesFor(t, m) :
                 /\ completions[t][1][i].error = NoError
                 /\ completions[t][1][i].content = StreamOf(m)
            /\ Cardinality(AssistantEntries(t, m)) = 1

TurnSlice(t) ==
  LET OfTurn(msg) == msg.turn = t
  IN  SelectSeq(conversation, OfTurn)
\* The contents a completed turn collected, in the order of the model list.
CollectedIn(t) ==
  LET HasContent(msg) == msg.error = NoError
  IN  SelectSeq(completions[t][1], HasContent)

\* C4: the conversation a turn leaves behind is one and the same sequence
\* for every order in which the models' tokens and completions arrive: the
\* user message, then the collected answers in the order of the model list.
C4_CompletionOrderCommutes ==
  \A t \in 1..turn :
    TurnComplete(t) => TurnSlice(t) = <<UserMessage(t)>> \o CollectedIn(t)

\* C4 (amended): for every arrival order a completed turn leaves the same
\* messages behind (its user message first, then one message with the whole
\* stream for each completed model) and the same view for every model; only
\* the position of the answers among themselves follows the completions.
C4_SameMessagesAnyOrder ==
  \A t \in 1..turn :
    TurnComplete(t) =>
      LET slice == TurnSlice(t)
      IN  /\ slice # <<>>
          /\ slice[1] = UserMessage(t)
          /\ Len(slice) = 1 + Cardinality(DoneIn(t))
          /\ \A m \in DoneIn(t) :
               \E i \in 2..Len(slice) :
                 slice[i] = AssistantMessage(m, StreamOf(m), t)
          /\ \A m \in ModelIds :
               LET Sees(msg) == Visible(msg, m)
               IN  SelectSeq(slice, Sees) =
                     IF m \in DoneIn(t)
                     THEN <<UserMessage(t), AssistantMessage(m, StreamOf(m), t)>>
                     ELSE <<UserMessage(t)>>

\* B completed before A, which stands first in the model list.
C4_Witness ==
  /\ frontend = "parallel"
  /\ turn = 1
  /\ TurnComplete(1)
  /\ conversation = <<UserMessage(1), AssistantMessage("B", StreamOf("B"), 1),
                      AssistantMessage("A", StreamOf("A"), 1)>>

\* C5: a model whose stream was open, with tokens received, when the user
\* interrupted the turn never gets an assistant message of that turn in the
\* conversation.
C5_InterruptLeavesNoPartialCommit ==
  \A p \in interrupted : AssistantEntries(p[1], p[2]) = {}

\* C6: after the interrupt of the current turn, no accumulator the renderer
\* shows for that turn grows.
C6_NoForwardingAfterInterrupt ==
  [][\A p \in interrupted :
       (p[1] = turn /\ turn' = turn) =>
          Len(streamingData'[p[2]].content) <= Len(streamingData[p[2]].content)]_vars

(***************************************************************************)
(* Further claims about the transport client                               *)
(***************************************************************************)
\* Every attempt of the call failed by a transport failure or a 429.
OnlyFailuresAndRateLimits ==
  \A i \in DOMAIN fetches : fetches[i].kind = "neterr" \/ IsRateLimited(fetches[i])

\* C11: a call that exhausts its retries over transport failures and 429
\* answers throws the error of the last attempt made: not the error of an
\* earlier attempt and not the generic placeholder.
C11_LastErrorOnExhaustion ==
  (reqPc = "thrown" /\ OnlyFailuresAndRateLimits) =>
     /\ reqOutcome # GenericFailure
     /\ reqOutcome.at = Len(fetches) - 1

(***************************************************************************)
(* Claims about streamChat                                                 *)
(***************************************************************************)
\* The tokens of the token lines among the complete lines ls that stand
\* before the first sentinel line.
RECURSIVE TokensBeforeSentinel(_)
TokensBeforeSentinel(ls) ==
  IF ls = <<>> \/ Head(ls) = SentinelLine THEN <<>>
  ELSE IF \E t \in Tokens : Head(ls) = TokenLine(t)
  THEN <<CHOOSE t \in Tokens : Head(ls) = TokenLine(t)>>
         \o TokensBeforeSentinel(Tail(ls))
  ELSE TokensBeforeSentinel(Tail(ls))
HasSentinel(ls) == \E i \in DOMAIN ls : ls[i] = SentinelLine
IsPrefixOf(s, t) == Len(s) <= Len(t) /\ SubSeq(t, 1, Len(s)) = s

\* C12: streamChat yields exactly the tokens of the well-formed token lines
\* before the sentinel, in line order; blank, comment and malformed lines
\* raise no error; a sentinel line ends the sequence, cleanly, and nothing
\* is yielded after it.
C12_TokensOfWellFormedLines ==
  LET expected == TokensBeforeSentinel(streamInput.lines)
  IN  /\ IsPrefixOf(yielded, expected)
      /\ streamPc \in {"returned", "done"} => yielded = expected
      /\ streamPc = "returned" => HasSentinel(streamInput.lines)
      /\ streamPc = "done" => ~HasSentinel(streamInput.lines)
      /\ streamPc = "thrown" => streamError.kind \in {"TransportFailure", "ApiError"}

\* A body with a malformed line after a token line, then the sentinel and
\* a token after it, read to the sentinel.
C12_Witness ==
  /\ streamPc = "returned"
  /\ streamInput = StreamInput(<<TokenLine("x"), MalformedLine, SentinelLine>>,
                               TokenLine("y"))
  /\ yielded = <<"x">>

(***************************************************************************)
(* Further claims about the chat front ends                                *)
(***************************************************************************)
\* C13: while a model streams, its accumulator is the concatenation of the
\* tokens received so far, in arrival order (so is the content the Ink
\* renderer shows for it); the assistant message of a cleanly completed
\* stream is appended with the whole stream as content and the model's id.
C13_TokensInArrivalOrder ==
  /\ \A p \in OpenRequests :
       LET task == tasks[p[1]][p[2]]
       IN  /\ task.fullResponse = SubSeq(StreamOf(p[2]), 1, task.read)
           /\ (frontend = "ink" /\ p[1] = turn) =>
                streamingData[p[2]].content = SubSeq(StreamOf(p[2]), 1, task.read)
  /\ \A i \in DOMAIN conversation :
       (IsAssistant(conversation[i]) /\ conversation[i].error = NoError) =>
          /\ conversation[i].content = StreamOf(conversation[i].model)
          /\ tasks[conversation[i].turn][conversation[i].model].status = "done"
  /\ \A t \in 1..turn : \A m \in DoneIn(t) :
       (frontend = "parallel" \/ (frontend = "chat" /\ ~TurnComplete(t))) =>
          Cardinality(AssistantEntries(t, m)) = 1

\* A's completed message is in the log while B's accumulator holds the
\* token B has received.
C13_Witness ==
  /\ frontend = "chat"
  /\ turn = 1
  /\ conversation = <<UserMessage(1), AssistantMessage("A", <<"a1", "a2">>, 1)>>
  /\ tasks[1]["B"].status = "streaming"
  /\ tasks[1]["B"].fullResponse = <<"b1">>

\* A model of turn t whose stream has not been opened yet.
Unopened(t) == {m \in ModelIds : tasks[t][m].status = "pending"}

C15_AccumulatorsNotShared ==
  [][turn' = turn =>
       /\ \A p, q \in OpenRequests :
            (tasks'[p[1]][p[2]] # tasks[p[1]][p[2]]
               /\ tasks'[q[1]][q[2]] # tasks[q[1]][q[2]]) => p = q
       /\ \A m \in ModelIds :
            streamingData'[m] # streamingData[m] =>
               /\ <<turn, m>> \in OpenRequests
               /\ tasks'[turn][m] # tasks[turn][m]
       /\ \A t \in 1..turn : \A m \in ModelIds :
            (Settled(tasks[t][m]) /\ completions'[t] = <<>>) =>
               tasks'[t][m] = tasks[t][m]]_vars

\* B's stream has completed and shows its content while A, one token in,
\* streams on.
C15_Witness ==
  /\ frontend = "ink"
  /\ turn >= 1
  /\ tasks[turn]["A"].status = "streaming"
  /\ streamingData["A"] = StreamingEntry(<<"a1">>, TRUE, NoError)
  /\ streamingData["B"] = StreamingEntry(<<"b1">>, FALSE, NoError)

(***************************************************************************)
(* Claims about the requests of streamChat                                 *)
(***************************************************************************)
\* C16: the body of a per-model stream request carries exactly the
\* temperature and the maxTokens of the profile it was called with (a
\* temperature of 0 included) and the id of the model.
C16_BodyCarriesProfile ==
  streamPc # "idle" =>
     /\ streamBody.model = streamArgs.model
     /\ streamBody.temperature = streamArgs.options.temperature
     /\ streamBody.max_tokens = streamArgs.options.maxTokens

\* C20: an HTTP 429 answer to the streaming request is not reported at once
\* as the stream's terminal error: the call does not fail on its first
\* fetch with the API error of a 429.
C20_StreamRateLimitRetried ==
  streamPc = "thrown" => streamError # ApiError(429, 0)

(***************************************************************************)
(* Claims about ModelManager                                               *)
(***************************************************************************)
DirReturned == dirPc = "returned"
\* The cache was younger than the timeout when the call was made.
YoungAtCall ==
  /\ dirRecord.before.lastFetch # NeverFetched
  /\ dirRecord.at - dirRecord.before.lastFetch < cacheTimeout

\* C17: a list call that is not forced and finds a cache younger than the
\* timeout returns the cached list without a network request; every other
\* list call (forced, never fetched, cache as old as the timeout or older)
\* fetches, and the fetched list replaces the cache and is returned.
C17_CachedUnlessForcedOrExpired ==
  (dirRecord.call.op = "list" /\ dirPc \in {"fetching", "returned"}) =>
     IF ~dirRecord.call.force /\ YoungAtCall
     THEN /\ DirReturned
          /\ ~dirRecord.network
          /\ dirRecord.value = dirRecord.before.models
          /\ CacheOf(cachedModels, lastFetch) = dirRecord.before
     ELSE /\ dirRecord.network
          /\ (DirReturned /\ dirRecord.fetch.ok) =>
               /\ cachedModels = dirRecord.fetch.data
               /\ dirRecord.value = dirRecord.fetch.data
               /\ lastFetch >= dirRecord.at
               /\ lastFetch <= now

\* A list call made when the cache was exactly as old as the timeout: it
\* fetched and the cache holds the new list.
C17_Witness ==
  /\ DirReturned
  /\ dirRecord.call = DirCallOf("list", FALSE, <<>>)
  /\ dirRecord.before.lastFetch # NeverFetched
  /\ dirRecord.at - dirRecord.before.lastFetch = cacheTimeout
  /\ dirRecord.fetch.ok
  /\ cachedModels # dirRecord.before.models

\* C18: when the fetch of the model list fails, the list call fails with
\* an error: it does not return a list.
C18_FetchFailurePropagates ==
  (dirPc \in {"returned", "thrown"} /\ dirRecord.network /\ ~dirRecord.fetch.ok) =>
     /\ dirPc = "thrown"
     /\ dirRecord.kind = "error"

DirDerivation == dirRecord.call.op \in {"search", "group"}

\* C19: search and groupByProvider issue no network request and leave the
\* cached list and its fetch timestamp unchanged, whatever the state of the
\* cache.
C19_DerivationsArePure ==
  (DirDerivation /\ dirPc \in {"fetching", "returned"}) =>
     /\ ~dirRecord.network
     /\ CacheOf(cachedModels, lastFetch) = dirRecord.before

\* The ids of list that hold the query, in the order of the list.
HitsAt(list, query) ==
  {i \in DOMAIN list :
     \E k \in 1..Len(list[i]) : \E l \in k..Len(list[i]) :
        SubSeq(list[i], k, l) = query}
IsSearchResult(value, list, query) ==
  /\ Len(value) = Cardinality(HitsAt(list, query))
  /\ \A i \in HitsAt(list, query) :
       value[Cardinality({j \in HitsAt(list, query) : j <= i})] = list[i]
\* The organization of an id: the text before its first slash, or "other".
SlashesOf(id) == {i \in DOMAIN id : id[i] = "/"}
OrgOf(id) ==
  IF SlashesOf(id) = {} \/ 1 \in SlashesOf(id) THEN <<"other">>
  ELSE SubSeq(id, 1, (CHOOSE i \in SlashesOf(id) : \A j \in SlashesOf(id) : i <= j) - 1)
IsGrouping(value, list) ==
  /\ DOMAIN value = {OrgOf(list[i]) : i \in DOMAIN list}
  /\ \A org \in DOMAIN value :
       /\ {value[org][k] : k \in DOMAIN value[org]} =
            {list[i] : i \in {j \in DOMAIN list : OrgOf(list[j]) = org}}
       /\ \A k, l \in DOMAIN value[org] :
            k < l => IdRank(value[org][k]) < IdRank(value[org][l])
IsDerivedFrom(value, list) ==
  IF dirRecord.call.op = "search"
  THEN IsSearchResult(value, list, dirRecord.call.query)
  ELSE IsGrouping(value, list)

\* C19 (amended): search and groupByProvider are derivations over the list
\* that list(false) gives: on a cache younger than the timeout they issue
\* no network request and leave the cache unchanged; on an empty or expired
\* cache they fetch first, as list(false) does, and derive from the list
\* that replaced the cache.  The derivation itself changes nothing.
C19_DerivationsOverList ==
  (DirDerivation /\ dirPc \in {"fetching", "returned"}) =>
     IF YoungAtCall
     THEN /\ DirReturned
          /\ ~dirRecord.network
          /\ CacheOf(cachedModels, lastFetch) = dirRecord.before
          /\ IsDerivedFrom(dirRecord.value, dirRecord.before.models)
     ELSE /\ dirRecord.network
          /\ DirReturned =>
               /\ IsDerivedFrom(dirRecord.value, cachedModels)
               /\ lastFetch >= dirRecord.at

\* A search on an expired cache: it fetched, and it returned some of the
\* models of the new list, not all.
C19_Witness ==
  /\ DirReturned
  /\ dirRecord.call.op = "search"
  /\ dirRecord.before.lastFetch # NeverFetched
  /\ dirRecord.network
  /\ dirRecord.value # <<>>
  /\ Len(dirRecord.value) < Len(cachedModels)

\* C29: a failed fetch of the model list leaves the cache as it was: the
\* cached list and the time of the last fetch are those of before the call.
C29_FailedFetchKeepsCache ==
  (dirPc \in {"returned", "thrown"} /\ dirRecord.network /\ ~dirRecord.fetch.ok) =>
     CacheOf(cachedModels, lastFetch) = dirRecord.before

\* The lines the connection delivered: the complete lines and, when the
\* body does not end with a newline, the text after the last newline.
DeliveredLines(input) ==
  input.lines \o (IF input.tail = <<>> THEN <<>> ELSE <<input.tail>>)

\* C28: when the stream has ended, by the sentinel or by the close of the
\* connection, streamChat has yielded the token of every well-formed token
\* line delivered before the sentinel, the unterminated last line
\* included, however the body was cut into chunks.
C28_EveryDeliveredTokenYielded ==
  streamPc \in {"returned", "done"} =>
     yielded = TokensBeforeSentinel(DeliveredLines(streamInput))

(***************************************************************************)
(* Claims about a turn over streamChat                                     *)
(***************************************************************************)
\* The body has token lines, and every one of them is malformed.
OnlyMalformedTokenLines(input) ==
  /\ \E i \in DOMAIN DeliveredLines(input) : DeliveredLines(input)[i] = MalformedLine
  /\ \A i \in DOMAIN DeliveredLines(input) :
       \A t \in Tokens : DeliveredLines(input)[i] # TokenLine(t)

\* C24: when every token line of a model's stream is malformed and the
\* stream ends without a token, the turn reports an error for the model and
\* records no assistant message with an empty content for it.
C24_ParseErrorSurfaced ==
  (/\ frontend = "parallel"
   /\ turn = 1
   /\ TurnComplete(1)
   /\ streamPc \in {"returned", "done"}
   /\ OnlyMalformedTokenLines(streamInput)) =>
     /\ \A i \in DOMAIN completions[1][1] : completions[1][1][i].error # NoError
     /\ \A i \in DOMAIN conversation :
          ~(IsAssistant(conversation[i]) /\ conversation[i].content = <<>>)

(***************************************************************************)
(* Claims about the turns of a session                                     *)
(***************************************************************************)
UsersIn(log) == {i \in DOMAIN log : log[i].role = "user"}

\* C26: the request built for a model in turn t ends with the user message
\* of turn t, holds that message once, and holds as many user messages as
\* the conversation had after the submit of turn t.
C26_UserMessageOnceAtEnd ==
  \A t \in 1..turn : \A m \in ModelIds :
    tasks[t][m].status = "streaming" =>
      LET view == tasks[t][m].view
      IN  /\ view # <<>>
          /\ view[Len(view)] = UserMessage(t)
          /\ Cardinality({i \in DOMAIN view : view[i] = UserMessage(t)}) = 1
          /\ Cardinality(UsersIn(view)) = Cardinality(UsersIn(tasks[t][m].snapshot))

\* C27: in the interactive app no stream of an earlier turn is running
\* once the next turn has been submitted, and the messages of the
\* conversation stand in the order of their turns.
C27_OneTurnInFlight ==
  frontend = "ink" =>
    /\ \A t \in 1..turn : \A m \in ModelIds :
         tasks[t][m].status = "streaming" => t = turn
    /\ \A i, j \in DOMAIN conversation :
         i < j => conversation[i].turn <= conversation[j].turn

\* C22: the conversation log is append-only: every step of a session
\* leaves the log as a prefix of the new log, except the clear command,
\* which empties it.
C22_AppendOnlyLog ==
  [][IsPrefixOf(conversation, conversation')
       \/ (ClearConversation /\ conversation' = <<>>)]_vars

\* A chat.ts session whose first turn went to B alone and ended; then the
\* model was switched to A: the log still holds the turn.
C22_Witness ==
  /\ frontend = "chat"
  /\ turn = 1
  /\ TurnComplete(1)
  /\ TurnModels(1) = {"B"}
  /\ activeModels = <<"A">>
  /\ conversation = <<UserMessage(1), AssistantMessage("B", StreamOf("B"), 1)>>

\* C23: every assistant message of the conversation names a model, one of
\* the models its turn went to; no user or system message names a model.
C23_AssistantNamesTurnModel ==
  \A i \in DOMAIN conversation :
    /\ IsAssistant(conversation[i]) =>
         /\ conversation[i].model # NoModel
         /\ conversation[i].turn \in 1..turn
         /\ conversation[i].model \in TurnModels(conversation[i].turn)
    /\ conversation[i].role \in {"user", "system"} => conversation[i].model = NoModel

\* Two turns that went to different models: the first to B, the second,
\* after a switch, to A; each assistant message names the model of its turn.
C23_Witness ==
  /\ turn = 2
  /\ TurnModels(1) = {"B"}
  /\ TurnModels(2) = {"A"}
  /\ \E i, j \in DOMAIN conversation :
       /\ i < j
       /\ conversation[i] = AssistantMessage("B", StreamOf("B"), 1)
       /\ conversation[j] = AssistantMessage("A", StreamOf("A"), 2)

\* C25: a /profile command that names no profile of the configuration
\* leaves the profile name, the active models and the conversation as they
\* were, and the session at its prompt.
C25_UnknownProfileAbortsCommand ==
  [][\A name \in ProfileArgs \ ProfileNames :
       SwitchProfile(name) =>
         /\ UNCHANGED <<currentProfileName, activeModels, conversation>>
         /\ AtPrompt']_vars

\* C30: every turn submitted goes to at least one model.
C30_NoTurnWithoutModel ==
  \A t \in 1..turn : TurnModels(t) # {}

(***************************************************************************)
(* Claims about ConfigManager                                              *)
(***************************************************************************)
\* C21: after reset the configuration is the built-in one: the only
\* profile is default, with its original models, temperature and
\* maxTokens; the default profile is default; no API key is set.
C21_ResetGivesBuiltInDefaults ==
  configOp = ConfigCall("reset", FALSE) =>
     /\ config.loaded
     /\ config.apiKey = NoKey
     /\ config.defaultProfile = "default"
     /\ profileTables[config.profiles] = BuiltInProfiles

=============================================================================
